---- MODULE Spec2Model ----
(***************************************************************************)
(* A model of anndata/h5py/h5sparse.py: sparse matrices (CSR/CSC) stored   *)
(* as an HDF5 group holding two attributes (h5sparse_format,               *)
(* h5sparse_shape) and three arrays (data, indices, indptr).               *)
(*                                                                         *)
(* Group.create_dataset, Group.__getitem__, Group.__delitem__,             *)
(* SparseDataset.__getitem__, SparseDataset.value and SparseDataset.append *)
(* are translated from the source.  The backing h5py container is          *)
(* modelled by what the code relies on: named children, attribute maps,    *)
(* one-dimensional typed arrays with Python slice reads, resize and tail   *)
(* writes.                                                                 *)
(***************************************************************************)
EXTENDS Integers, Sequences, FiniteSets, TLC

\* ------------------------------------------------------------------ bounds
\* In-memory matrices handed to create_dataset / append.
MaxRows == 2
MaxCols == 2
MaxNnz == 2
\* Caps on what an on-disk dataset may grow to through append.
MaxDiskRows == 3
MaxDiskNnz == 3

\* Stored values: 1 fits every element type, 200 does not fit int8.
Values == {1, 200}

\* ------------------------------------------------------------- Python data
\* An optional integer (None or an int) is the empty set or a singleton.
None == {}
Some(x) == {x}
Get(o) == CHOOSE x \in o : TRUE
OptInts(S) == {None} \cup {Some(x) : x \in S}

\* Python truthiness of an optional integer: None and 0 are falsy.
Truthy(o) == o # None /\ o # Some(0)

Min(a, b) == IF a <= b THEN a ELSE b
Max(a, b) == IF a >= b THEN a ELSE b

\* A 1-based TLA+ sequence read with a 0-based half-open range [lo, hi).
Range0(s, lo, hi) == IF hi <= lo THEN <<>> ELSE SubSeq(s, lo + 1, hi)

\* seq[start:stop] with Python's rules for a unit step: an unset bound is
\* the edge, a negative bound counts from the end, both are clamped.
PySliceLo(len, start) ==
    IF start = None THEN 0
    ELSE IF Get(start) < 0 THEN Max(len + Get(start), 0)
    ELSE Min(Get(start), len)

PySliceHi(len, stop) ==
    IF stop = None THEN len
    ELSE IF Get(stop) < 0 THEN Max(len + Get(stop), 0)
    ELSE Min(Get(stop), len)

PySlice(s, start, stop) ==
    Range0(s, PySliceLo(Len(s), start), PySliceHi(Len(s), stop))

\* ------------------------------------------------------------ element types
Bits(dtype) ==
    CASE dtype = "int8" -> 8
      [] dtype = "int32" -> 32
      [] dtype = "int64" -> 64

RECURSIVE Pow2(_)
Pow2(n) == IF n = 0 THEN 1 ELSE 2 * Pow2(n - 1)

\* Every integer of the model lies far inside the 32-bit range, so only
\* the 8-bit type can fail to hold one.
Fits(dtype, x) ==
    Bits(dtype) >= 32 \/ (x >= -Pow2(Bits(dtype) - 1) /\ x < Pow2(Bits(dtype) - 1))

\* What the container stores for a value that does not fit: HDF5's type
\* conversion saturates, a NumPy cast wraps; which one applies depends on
\* the h5py version, so both are outcomes.
ConvModes == {"saturate", "wrap"}

Cast(dtype, conv, x) ==
    IF Fits(dtype, x) THEN x
    ELSE LET half == Pow2(Bits(dtype) - 1) IN
         IF conv = "saturate"
         THEN (IF x < 0 THEN -half ELSE half - 1)
         ELSE ((x + half) % (2 * half)) - half

CastSeq(dtype, conv, s) == [i \in 1..Len(s) |-> Cast(dtype, conv, s[i])]

\* ------------------------------------------------------- in-memory matrices
\* FORMAT_DICT: the registered formats.
FORMAT_DICT == {"csr", "csc"}

\* The cells of a major x minor grid listed in row-major order from cell k.
RECURSIVE CellSeq(_, _, _, _)
CellSeq(cells, major, minor, k) ==
    IF k >= major * minor THEN <<>>
    ELSE LET c == <<k \div minor, k % minor>> IN
         (IF c \in cells THEN <<c>> ELSE <<>>)
             \o CellSeq(cells, major, minor, k + 1)

\* The compressed matrix with the given occupied cells (major index first),
\* the k-th stored value being v + k - 1.
Compressed(fmt, major, minor, cells, v) ==
    LET cs == CellSeq(cells, major, minor, 0) IN
    [format  |-> fmt,
     shape   |-> IF fmt = "csr" THEN <<major, minor>> ELSE <<minor, major>>,
     data    |-> [k \in 1..Len(cs) |-> v + k - 1],
     indices |-> [k \in 1..Len(cs) |-> cs[k][2]],
     indptr  |-> [i \in 1..(major + 1) |->
                     Cardinality({c \in cells : c[1] < i - 1})]]

CompressedSet(fmt, maxMajor, maxMinor, maxNnz) ==
    {Compressed(fmt, major, minor, cells, v) :
        <<major, minor, cells, v>> \in
            {q \in UNION {UNION {
                    {<<ma, mi, cs, w>> :
                        cs \in SUBSET ((0..(ma - 1)) \X (0..(mi - 1))),
                        w \in Values}
                    : mi \in 0..maxMinor} : ma \in 0..maxMajor} :
                /\ Cardinality(q[3]) <= maxNnz
                /\ (q[3] = {} => q[4] = 1)}}

CsrMatrices == CompressedSet("csr", MaxRows, MaxCols, MaxNnz)
CscMatrices == CompressedSet("csc", MaxCols, MaxRows, MaxNnz)

\* A sparse matrix whose class is not in FORMAT_DICT (scipy's coo_matrix).
CooMatrix ==
    [format |-> "coo", shape |-> <<1, 1>>, data |-> <<1>>,
     indices |-> <<>>, indptr |-> <<>>]

SparseMatrices == CsrMatrices \cup CscMatrices \cup {CooMatrix}

Major(fmt, shape) == IF fmt = "csr" THEN shape[1] ELSE shape[2]
Minor(fmt, shape) == IF fmt = "csr" THEN shape[2] ELSE shape[1]

\* ------------------------------------------------------- the HDF5 container
Names == {"X"}

NoChild == [kind |-> "absent"]

\* h5py_group.create_group(name): no attributes, no arrays.
EmptyGroup ==
    [kind  |-> "group",
     attrs |-> [h5sparse_format |-> None, h5sparse_shape |-> None],
     dsets |-> [data |-> None, indices |-> None, indptr |-> None]]

\* group.create_dataset(key, data=values, dtype=dtype): a typed 1-d array.
NewArray(dtype, conv, values) ==
    [dtype |-> dtype, val |-> CastSeq(dtype, conv, values)]

\* The exceptions the code raises, by class and message.
Ok == [exc |-> "none", msg |-> ""]
UnsupportedFormat == [exc |-> "ValueError", msg |-> "Data type is not supported."]
FormatMismatch == [exc |-> "ValueError", msg |-> "Format not the same."]
UnsupportedSlice == [exc |-> "ValueError", msg |-> "Slicing is only possible along the major axis."]
StepNotSupported == [exc |-> "NotImplementedError", msg |-> "Index step is not supported."]
AppendNotImplemented == [exc |-> "NotImplementedError", msg |-> "The append method is not implemented."]
CreateNeedsData == [exc |-> "NotImplementedError", msg |-> "Only support create_dataset with existing data."]
\* Raised by the container or by NumPy, not by this file.
KeyError == [exc |-> "KeyError", msg |-> ""]
IndexError == [exc |-> "IndexError", msg |-> ""]
NameExists == [exc |-> "ValueError", msg |-> "name already exists"]
ContainerError == [exc |-> "OSError", msg |-> ""]

NoVal == [kind |-> "none"]

VARIABLES
    children,   \* the parent group's children, by name
    origin,     \* history: how each child came to be
    ret,        \* the last call: operation, key, exception raised, value returned
    rd,         \* a range read in progress (the reader's locals)
    ap          \* an append in progress (the writer's locals)

vars == <<children, origin, ret, rd, ap>>

Result(op, name, key, err, val) ==
    [op |-> op, name |-> name, key |-> key, err |-> err, val |-> val]

\* ------------------------------------------------------------ Format registry
\* get_format_str: the tag of a registered class, None where it raises.
get_format_str(data) ==
    IF data.format \in FORMAT_DICT THEN Some(data.format) ELSE None

\* get_format_class: the constructor of a tag, None where it raises.
get_format_class(format_str) ==
    IF format_str \in FORMAT_DICT THEN Some(format_str) ELSE None

\* format_class((data, indices, indptr), shape=shape)
Construct(fmt, data, indices, indptr, shape) ==
    [format |-> fmt, shape |-> shape, data |-> data,
     indices |-> indices, indptr |-> indptr]

\* ------------------------------------------------------ Group.create_dataset
\* The defaults of create_dataset's indices_dtype and indptr_dtype.
indices_dtype == "int32"
indptr_dtype == "int64"

\* The container calls of create_dataset, in program order.
CreateSteps ==
    <<"create_group", "attrs_format", "attrs_shape", "data", "indices", "indptr">>

FailPoints == {"none"} \cup {CreateSteps[i] : i \in 1..Len(CreateSteps)}

StepNo(step) == CHOOSE i \in 1..Len(CreateSteps) : CreateSteps[i] = step

\* The child group after the first n container calls have completed, written
\* from the five parts of the source (a matrix or another sparse dataset).
GroupAfter(n, fmt, shape, data, indices, indptr, dtype, conv) ==
    LET g1 == EmptyGroup
        g2 == [g1 EXCEPT !.attrs.h5sparse_format = Some(fmt)]
        g3 == [g2 EXCEPT !.attrs.h5sparse_shape = Some(shape)]
        g4 == [g3 EXCEPT !.dsets.data = Some(NewArray(dtype, conv, data))]
        g5 == [g4 EXCEPT !.dsets.indices = Some(NewArray(indices_dtype, conv, indices))]
        g6 == [g5 EXCEPT !.dsets.indptr = Some(NewArray(indptr_dtype, conv, indptr))]
    IN  <<g1, g2, g3, g4, g5, g6>>[n]

\* What the first failing call leaves behind: the calls before it.
CreateOutcome(child, failAt, fmt, shape, data, indices, indptr, dtype, conv) ==
    IF failAt = "none"
    THEN <<GroupAfter(Len(CreateSteps), fmt, shape, data, indices, indptr, dtype, conv), Ok>>
    ELSE IF failAt = "create_group"
    THEN <<child, ContainerError>>
    ELSE <<GroupAfter(StepNo(failAt) - 1, fmt, shape, data, indices, indptr, dtype, conv),
           ContainerError>>

\* The data=None branch.
CreateDatasetNoData(name) ==
    /\ ret' = Result("create_dataset", name, NoVal, CreateNeedsData, NoVal)
    /\ UNCHANGED <<children, origin, rd, ap>>

\* create_group(name) on a name in use raises before anything is written,
\* whatever the data (every branch but data=None starts with it).
CreateDatasetExists(name) ==
    /\ children[name] # NoChild
    /\ ret' = Result("create_dataset", name, NoVal, NameExists, NoVal)
    /\ UNCHANGED <<children, origin, rd, ap>>

\* The child's history after a create_dataset that left `g` and raised `err`.
OriginAfter(old, g, err, made) ==
    IF err = Ok THEN made
    ELSE IF g = NoChild THEN old
    ELSE [kind |-> "failed"]

\* The ss.issparse(data) branch; dtype None takes the matrix's own type.
CreateDatasetSparse(name, data, dtype, conv, failAt) ==
    LET dt  == IF dtype = None THEN "int64" ELSE Get(dtype)
        tag == get_format_str(data)
        out == IF failAt = "create_group"
               THEN <<NoChild, ContainerError>>
               ELSE IF tag = None
               THEN <<EmptyGroup, UnsupportedFormat>>
               ELSE CreateOutcome(NoChild, failAt, Get(tag), data.shape, data.data,
                                  data.indices, data.indptr, dt, conv)
    IN  /\ children[name] = NoChild
        /\ children' = [children EXCEPT ![name] = out[1]]
        /\ origin' = [origin EXCEPT ![name] =
                         OriginAfter(@, out[1], out[2],
                                     [kind |-> "written", m |-> data, dtype |-> dt])]
        /\ ret' = Result("create_dataset", name, NoVal, out[2], NoVal)
        /\ UNCHANGED <<rd, ap>>

\* The isinstance(data, SparseDataset) branch: src is the group behind the
\* handle; dtype None takes the source array's type.
CreateDatasetCopy(name, src, dtype, conv, failAt) ==
    LET dt  == IF dtype = None THEN Get(src.dsets.data).dtype ELSE Get(dtype)
        out == CreateOutcome(NoChild, failAt,
                        Get(src.attrs.h5sparse_format), Get(src.attrs.h5sparse_shape),
                        Get(src.dsets.data).val, Get(src.dsets.indices).val,
                        Get(src.dsets.indptr).val, dt, conv)
    IN  /\ children[name] = NoChild
        /\ children' = [children EXCEPT ![name] = out[1]]
        /\ origin' = [origin EXCEPT ![name] =
                         OriginAfter(@, out[1], out[2], [kind |-> "copied"])]
        /\ ret' = Result("create_dataset", name, NoVal, out[2], NoVal)
        /\ UNCHANGED <<rd, ap>>

\* The else branch: a dense array is passed through to h5py.
CreateDatasetDense(name, values) ==
    /\ children[name] = NoChild
    /\ children' = [children EXCEPT ![name] = [kind |-> "dataset", val |-> values]]
    /\ origin' = [origin EXCEPT ![name] = [kind |-> "dense"]]
    /\ ret' = Result("create_dataset", name, NoVal, Ok, NoVal)
    /\ UNCHANGED <<rd, ap>>

\* ----------------------------------------- Group.__getitem__, __delitem__
\* The class of the object Group.__getitem__ returns for a child.
Classify(child) ==
    IF child.kind = "group"
    THEN (IF child.attrs.h5sparse_format # None THEN "SparseDataset" ELSE "Group")
    ELSE IF child.kind = "dataset" THEN "Dataset"
    ELSE "KeyError"

GroupGetItem(name) ==
    /\ ret' = IF children[name] = NoChild
              THEN Result("Group.__getitem__", name, NoVal, KeyError, NoVal)
              ELSE Result("Group.__getitem__", name, NoVal, Ok,
                          [kind |-> Classify(children[name])])
    /\ UNCHANGED <<children, origin, rd, ap>>

GroupDelItem(name) ==
    /\ children' = [children EXCEPT ![name] = NoChild]
    /\ origin' = [origin EXCEPT ![name] = [kind |-> "absent"]]
    /\ ret' = Result("__delitem__", name, NoVal,
                     IF children[name] = NoChild THEN KeyError ELSE Ok, NoVal)
    /\ UNCHANGED <<rd, ap>>

\* A SparseDataset handle for the child exists: parent[name] returned one.
IsSparseDataset(name) == Classify(children[name]) = "SparseDataset"

\* SparseDataset.format_str
DiskFormat(name) == Get(children[name].attrs.h5sparse_format)

\* ------------------------------------------------------ SparseDataset.value
\* A variant of value that hands indptr and indices to the constructor in
\* each other's place.
ValueOfSwapped(g) ==
    IF \/ g.dsets.data = None \/ g.dsets.indices = None \/ g.dsets.indptr = None
       \/ g.attrs.h5sparse_shape = None
    THEN <<KeyError, NoVal>>
    ELSE <<Ok, Construct(Get(g.attrs.h5sparse_format), Get(g.dsets.data).val,
                         Get(g.dsets.indptr).val, Get(g.dsets.indices).val,
                         Get(g.attrs.h5sparse_shape))>>

ValueOf(g) ==
    IF \/ g.dsets.data = None \/ g.dsets.indices = None \/ g.dsets.indptr = None
       \/ g.attrs.h5sparse_shape = None
    THEN <<KeyError, NoVal>>
    ELSE LET cls == get_format_class(Get(g.attrs.h5sparse_format)) IN
         IF cls = None THEN <<UnsupportedFormat, NoVal>>
         ELSE <<Ok, Construct(Get(cls), Get(g.dsets.data).val, Get(g.dsets.indices).val,
                              Get(g.dsets.indptr).val, Get(g.attrs.h5sparse_shape))>>

Value(name) ==
    /\ IsSparseDataset(name)
    /\ ret' = Result("value", name, NoVal, ValueOf(children[name])[1], ValueOf(children[name])[2])
    /\ UNCHANGED <<children, origin, rd, ap>>

\* ------------------------------------------------ SparseDataset.__getitem__
\* Index selectors: an int, a slice(start, stop, step), or anything else
\* (a list, an array).
IntSel(k) == [kind |-> "int", v |-> k, start |-> None, stop |-> None, step |-> None]
SliceSel(start, stop, step) ==
    [kind |-> "slice", v |-> 0, start |-> start, stop |-> stop, step |-> step]
ListSel == [kind |-> "list", v |-> 0, start |-> None, stop |-> None, step |-> None]
FullSlice == SliceSel(None, None, None)

\* A key is ds[sel] or ds[row, col].
SingleKey(sel) == [kind |-> "single", row |-> sel, col |-> FullSlice]
TupleKey(row, col) == [kind |-> "tuple", row |-> row, col |-> col]

\* ds[a:b, :]
RowSlice(a, b) == TupleKey(SliceSel(Some(a), Some(b), None), FullSlice)

\* IndexMixin._unpack_index (scipy): a bare selector is the row selector
\* with every column; a pair is passed through unchanged.
UnpackIndex(key) ==
    IF key.kind = "tuple" THEN <<key.row, key.col>> ELSE <<key.row, FullSlice>>

AttributeError == [exc |-> "AttributeError", msg |-> ""]
OnlyOneSlice == [exc |-> "NotImplementedError", msg |-> "Only support one slice as index."]

\* The selector of the compressed (major) axis and of the other (minor) one.
MajorSel(fmt, key) == IF fmt = "csr" THEN UnpackIndex(key)[1] ELSE UnpackIndex(key)[2]
MinorSel(fmt, key) == IF fmt = "csr" THEN UnpackIndex(key)[2] ELSE UnpackIndex(key)[1]

\* isinstance(col, int) or any((col.start, col.stop, col.step))
MinorRejected(sel) ==
    sel.kind = "int" \/ Truthy(sel.start) \/ Truthy(sel.stop) \/ Truthy(sel.step)

\* An int k becomes slice(k, k + 1).
NormalizeKey(sel) ==
    IF sel.kind = "int" THEN SliceSel(Some(sel.v), Some(sel.v + 1), None) ELSE sel

\* The bounds of the indptr read: a positive stop is raised by one, a
\* negative start lowered by one.
IndptrStop(stop) ==
    IF stop # None /\ Get(stop) > 0 THEN Some(Get(stop) + 1) ELSE stop

IndptrStart(start) ==
    IF start # None /\ Get(start) < 0 THEN Some(Get(start) - 1) ELSE start

\* indptr -= indptr[0]
Rebase(indptr) == [i \in 1..Len(indptr) |-> indptr[i] - indptr[1]]

\* The checks before any array is read: the error raised, or the bounds
\* of the indptr slice.
KeyCheck(fmt, key) ==
    LET minor == MinorSel(fmt, key)
        k     == NormalizeKey(MajorSel(fmt, key))
    IN  IF minor.kind = "list" THEN <<AttributeError, None, None>>
        ELSE IF MinorRejected(minor) THEN <<UnsupportedSlice, None, None>>
        ELSE IF k.kind # "slice" THEN <<OnlyOneSlice, None, None>>
        ELSE IF k.step \notin {None, Some(1)} THEN <<StepNotSupported, None, None>>
        ELSE <<Ok, IndptrStart(k.start), IndptrStop(k.stop)>>

\* self.h5py_group[array][start:stop]
ReadArray(g, array, start, stop) == PySlice(Get(g.dsets[array]).val, start, stop)

\* The shape of the result, from the rebased indptr and the stored shape.
ResultShape(fmt, indptr, shape) ==
    IF fmt = "csr" THEN <<Len(indptr) - 1, shape[2]>> ELSE <<shape[1], Len(indptr) - 1>>

\* The reads and the construction, given the indptr slice's bounds.
ReadRange(g, start, stop) ==
    LET fmt == Get(g.attrs.h5sparse_format) IN
    IF g.dsets.indptr = None \/ g.dsets.data = None THEN <<KeyError, NoVal>>
    ELSE LET indptr == ReadArray(g, "indptr", start, stop) IN
         IF indptr = <<>> THEN <<IndexError, NoVal>>
         ELSE IF g.dsets.indices = None \/ g.attrs.h5sparse_shape = None
         THEN <<KeyError, NoVal>>
         ELSE IF get_format_class(fmt) = None THEN <<UnsupportedFormat, NoVal>>
         ELSE LET lo == Some(indptr[1])
                  hi == Some(indptr[Len(indptr)])
              IN  <<Ok, Construct(fmt,
                        ReadArray(g, "data", lo, hi),
                        ReadArray(g, "indices", lo, hi),
                        Rebase(indptr),
                        ResultShape(fmt, indptr, Get(g.attrs.h5sparse_shape)))>>

GetItemOf(g, key) ==
    LET chk == KeyCheck(Get(g.attrs.h5sparse_format), key) IN
    IF chk[1] # Ok THEN <<chk[1], NoVal>> ELSE ReadRange(g, chk[2], chk[3])

\* The keys tried: integers and slices over the major axis with every
\* minor selector the check has to tell apart.
IdxRange == (-(MaxRows + 1))..(MaxRows + 1)

MajorSels ==
    {IntSel(k) : k \in IdxRange}
        \cup {SliceSel(a, b, None) : a \in OptInts(IdxRange), b \in OptInts(IdxRange)}
        \cup {SliceSel(None, None, Some(st)) : st \in 0..2}
        \cup {ListSel}

MinorSels ==
    {FullSlice, ListSel, IntSel(0), IntSel(1)}
        \cup {SliceSel(Some(k), None, None) : k \in 0..1}
        \cup {SliceSel(None, Some(k), None) : k \in 0..1}
        \cup {SliceSel(None, None, Some(k)) : k \in 0..1}

MakeKey(fmt, major, minor) ==
    IF fmt = "csr" THEN TupleKey(major, minor) ELSE TupleKey(minor, major)

Keys(fmt) ==
    {MakeKey(fmt, ma, FullSlice) : ma \in MajorSels}
        \cup {MakeKey(fmt, ma, mi) :
                 ma \in {FullSlice, IntSel(0), SliceSel(Some(0), Some(1), None)},
                 mi \in MinorSels}
        \cup {SingleKey(ma) : ma \in {IntSel(0), SliceSel(Some(0), Some(1), None)}}

GetItem(name, key) ==
    /\ IsSparseDataset(name)
    /\ ret' = Result("__getitem__", name, key, GetItemOf(children[name], key)[1],
                     GetItemOf(children[name], key)[2])
    /\ UNCHANGED <<children, origin, rd, ap>>

\* ----------------------------------------------------- SparseDataset.append
\* dataset.resize((n,)): new elements hold the fill value 0.
ResizeArray(arr, n) ==
    [arr EXCEPT !.val = [i \in 1..n |-> IF i <= Len(arr.val) THEN arr.val[i] ELSE 0]]

\* dataset[from:] = values, converted to the dataset's element type.
WriteTail(arr, from, values, conv) ==
    [arr EXCEPT !.val = [i \in 1..Len(arr.val) |->
        IF i > from /\ i - from <= Len(values)
        THEN Cast(arr.dtype, conv, values[i - from])
        ELSE arr.val[i]]]

\* s[1:]
DropFirst(s) == IF Len(s) = 0 THEN <<>> ELSE SubSeq(s, 2, Len(s))

\* data.resize(orig + len(sparse_matrix.data))
DataResize(g, m) ==
    [g EXCEPT !.dsets.data =
        Some(ResizeArray(Get(@), Len(Get(@).val) + Len(m.data)))]

\* data[orig:] = sparse_matrix.data
DataWrite(g, m, orig, conv) ==
    [g EXCEPT !.dsets.data = Some(WriteTail(Get(@), orig, m.data, conv))]

\* A variant of the indptr resize that forgets the original length.
IndptrResizeFromZero(g, m) ==
    [g EXCEPT !.dsets.indptr = Some(ResizeArray(Get(@), Len(m.indptr) - 1))]

\* indptr.resize(orig + len(sparse_matrix.indptr) - 1)
IndptrResize(g, m) ==
    [g EXCEPT !.dsets.indptr =
        Some(ResizeArray(Get(@), Len(Get(@).val) + Len(m.indptr) - 1))]

\* A variant of the indptr write that does not add append_offset.
IndptrWriteNoOffset(g, m, orig, offset, conv) ==
    [g EXCEPT !.dsets.indptr =
        Some(WriteTail(Get(@), orig, DropFirst(m.indptr), conv))]

\* indptr[orig:] = sparse_matrix.indptr[1:].astype(int64) + append_offset
IndptrWrite(g, m, orig, offset, conv) ==
    [g EXCEPT !.dsets.indptr =
        Some(WriteTail(Get(@), orig,
                       [i \in 1..Len(DropFirst(m.indptr)) |->
                           Cast("int64", conv, DropFirst(m.indptr)[i]) + offset],
                       conv))]

\* indices.resize(orig + len(sparse_matrix.indices))
IndicesResize(g, m) ==
    [g EXCEPT !.dsets.indices =
        Some(ResizeArray(Get(@), Len(Get(@).val) + Len(m.indices)))]

\* indices[orig:] = sparse_matrix.indices
IndicesWrite(g, m, orig, conv) ==
    [g EXCEPT !.dsets.indices = Some(WriteTail(Get(@), orig, m.indices, conv))]

\* A variant of the new shape that takes the incoming column count.
NewShapeIncoming(shape, m) == <<shape[1] + m.shape[1], m.shape[2]>>

\* (shape[0] + sparse_matrix.shape[0], max(shape[1], sparse_matrix.shape[1]))
NewShape(shape, m) == <<shape[1] + m.shape[1], Max(shape[2], m.shape[2])>>

ShapeWrite(g, shape, m) ==
    [g EXCEPT !.attrs.h5sparse_shape = Some(NewShape(shape, m))]

ArrayLen(g, array) == IF g.dsets[array] = None THEN 0 ELSE Len(Get(g.dsets[array]).val)

\* indptr[-1]
LastOf(s) == s[Len(s)]

\* The csr branch, array by array; a missing array raises KeyError with
\* the arrays before it already grown.
AppendCsr(g, shape, m, conv) ==
    IF g.dsets.data = None THEN <<g, KeyError>>
    ELSE LET g1 == DataWrite(DataResize(g, m), m, ArrayLen(g, "data"), conv) IN
    IF g1.dsets.indptr = None THEN <<g1, KeyError>>
    ELSE IF ArrayLen(g1, "indptr") = 0 THEN <<g1, IndexError>>
    ELSE LET g2 == IndptrWrite(IndptrResize(g1, m), m, ArrayLen(g1, "indptr"),
                               LastOf(Get(g1.dsets.indptr).val), conv) IN
    IF g2.dsets.indices = None THEN <<g2, KeyError>>
    ELSE LET g3 == IndicesWrite(IndicesResize(g2, m), m, ArrayLen(g2, "indices"), conv) IN
    <<ShapeWrite(g3, shape, m), Ok>>

\* A variant of the checks that tests for csr before comparing formats.
AppendCheckCsrFirst(g, m) ==
    IF g.attrs.h5sparse_shape = None THEN KeyError
    ELSE IF get_format_str(m) = None THEN UnsupportedFormat
    ELSE IF Get(g.attrs.h5sparse_format) # "csr" THEN AppendNotImplemented
    ELSE IF Get(g.attrs.h5sparse_format) # Get(get_format_str(m)) THEN FormatMismatch
    ELSE Ok

\* The checks of append, in program order.
AppendCheck(g, m) ==
    IF g.attrs.h5sparse_shape = None THEN KeyError
    ELSE IF get_format_str(m) = None THEN UnsupportedFormat
    ELSE IF Get(g.attrs.h5sparse_format) # Get(get_format_str(m)) THEN FormatMismatch
    ELSE IF Get(g.attrs.h5sparse_format) # "csr" THEN AppendNotImplemented
    ELSE Ok

AppendOf(g, m, conv) ==
    IF AppendCheck(g, m) # Ok THEN <<g, AppendCheck(g, m)>>
    ELSE AppendCsr(g, Get(g.attrs.h5sparse_shape), m, conv)

\* The dataset stays within the caps of the model with m appended.
WithinCaps(g, m) ==
    /\ ArrayLen(g, "data") + Len(m.data) <= MaxDiskNnz
    /\ ArrayLen(g, "indptr") + Len(m.indptr) - 1 <= MaxDiskRows + 1

SparseAppend(name, m, conv) ==
    LET out == AppendOf(children[name], m, conv) IN
    /\ IsSparseDataset(name)
    /\ WithinCaps(children[name], m)
    /\ children' = [children EXCEPT ![name] = out[1]]
    /\ origin' = [origin EXCEPT ![name] =
                     IF out[2] = Ok THEN [kind |-> "appended"]
                     ELSE IF out[1] = children[name] THEN @
                     ELSE [kind |-> "failed"]]
    /\ ret' = Result("append", name, m, out[2], NoVal)
    /\ UNCHANGED <<rd, ap>>

\* ------------------------------------------------------------ specification
\* The groups a SparseDataset handle passed to create_dataset may wrap.
SourceGroups ==
    {GroupAfter(Len(CreateSteps), m.format, m.shape, m.data, m.indices, m.indptr,
                dt, "saturate") :
        m \in {x \in CsrMatrices : Len(x.data) <= 1}, dt \in {"int8", "int64"}}

DTypeArgs == {None, Some("int8")}

Idle == [pc |-> "idle"]

NoCall == Result("none", "", NoVal, Ok, NoVal)

Init ==
    /\ children = [n \in Names |-> NoChild]
    /\ origin = [n \in Names |-> [kind |-> "absent"]]
    /\ ret = NoCall
    /\ rd = Idle
    /\ ap = Idle

\* The caller is single-threaded: it takes the result of a call (Return)
\* before it makes the next one.
Ready == ret = NoCall

Return ==
    /\ ret # NoCall
    /\ ret' = NoCall
    /\ UNCHANGED <<children, origin, rd, ap>>

CreateDataset ==
    /\ Ready
    /\ \E name \in Names :
        \/ CreateDatasetNoData(name)
        \/ CreateDatasetExists(name)
        \/ \E data \in SparseMatrices, dtype \in DTypeArgs, conv \in ConvModes,
              failAt \in FailPoints :
               CreateDatasetSparse(name, data, dtype, conv, failAt)
        \/ \E src \in SourceGroups, dtype \in DTypeArgs, failAt \in FailPoints :
               CreateDatasetCopy(name, src, dtype, "saturate", failAt)
        \/ CreateDatasetDense(name, <<1>>)

GetChild == Ready /\ \E name \in Names : GroupGetItem(name)

DelChild == Ready /\ \E name \in Names : GroupDelItem(name)

ReadValue == Ready /\ \E name \in Names : Value(name)

ReadItem ==
    /\ Ready
    /\ \E name \in Names :
        /\ IsSparseDataset(name)
        /\ \E key \in Keys(DiskFormat(name)) : GetItem(name, key)

Next == CreateDataset \/ GetChild \/ DelChild \/ ReadValue \/ ReadItem \/ Return

Spec == Init /\ [][Next]_vars

\* The specification of the write path: create, append, read back, delete.
AppendTo ==
    /\ Ready
    /\ \E name \in Names, m \in SparseMatrices, conv \in ConvModes : SparseAppend(name, m, conv)

NextAppend == CreateDataset \/ AppendTo \/ ReadValue \/ DelChild \/ Return

SpecAppend == Init /\ [][NextAppend]_vars

\* --------------------------------------------- a range read racing an append
\* One reader thread runs SparseDataset.__getitem__ and one writer thread
\* runs SparseDataset.append on the same dataset; each container call is
\* one step, and the steps of the two interleave freely.

\* The datasets the race starts from: written by create_dataset from a
\* CSR matrix, in the matrix's own element type.
RaceMatrices == {m \in CsrMatrices : Len(m.data) = 0 \/ m.data[1] = 1}

\* The explicit row ranges the reader asks for: a:b with a <= b, b >= 1.
RaceKeys ==
    {RowSlice(p[1], p[2]) : p \in {q \in (0..MaxRows) \X (1..MaxRows) : q[1] <= q[2]}}

InitRace ==
    /\ \E m \in {x \in RaceMatrices : x.shape[1] >= 1} :
          /\ children = [n \in Names |->
                GroupAfter(Len(CreateSteps), m.format, m.shape, m.data, m.indices,
                           m.indptr, "int64", "saturate")]
          /\ origin = [n \in Names |-> [kind |-> "written", m |-> m, dtype |-> "int64"]]
    /\ ret = NoCall
    /\ rd = Idle
    /\ ap = Idle

\* Lines 171-197: the key is checked and the bounds of the indptr read are
\* computed; nothing is read from the arrays yet.
RdStart(name, key) ==
    LET chk == KeyCheck(DiskFormat(name), key) IN
    /\ Ready /\ rd = Idle
    /\ IsSparseDataset(name)
    /\ IF chk[1] # Ok
       THEN /\ ret' = Result("__getitem__", name, key, chk[1], NoVal)
            /\ rd' = rd
       ELSE /\ rd' = [pc |-> "indptr", name |-> name, key |-> key,
                      start |-> chk[2], stop |-> chk[3],
                      indptr |-> <<>>, data |-> <<>>, indices |-> <<>>]
            /\ ret' = ret
    /\ UNCHANGED <<children, origin, ap>>

\* Line 198: indptr = self.h5py_group['indptr'][indptr_slice]
RdIndptr ==
    /\ rd.pc = "indptr"
    /\ rd' = [rd EXCEPT !.pc = "data",
                        !.indptr = ReadArray(children[rd.name], "indptr", rd.start, rd.stop)]
    /\ UNCHANGED <<children, origin, ret, ap>>

\* Line 199: data = self.h5py_group['data'][indptr[0]:indptr[-1]]
RdData ==
    /\ rd.pc = "data"
    /\ IF rd.indptr = <<>>
       THEN /\ ret' = Result("__getitem__", rd.name, rd.key, IndexError, NoVal)
            /\ rd' = Idle
       ELSE /\ rd' = [rd EXCEPT !.pc = "indices",
                        !.data = ReadArray(children[rd.name], "data",
                                           Some(rd.indptr[1]), Some(LastOf(rd.indptr)))]
            /\ ret' = ret
    /\ UNCHANGED <<children, origin, ap>>

\* Line 200: indices = self.h5py_group['indices'][indptr[0]:indptr[-1]]
RdIndices ==
    /\ rd.pc = "indices"
    /\ rd' = [rd EXCEPT !.pc = "shape",
                !.indices = ReadArray(children[rd.name], "indices",
                                      Some(rd.indptr[1]), Some(LastOf(rd.indptr)))]
    /\ UNCHANGED <<children, origin, ret, ap>>

\* Lines 201-210: the rebase, the read of the shape attribute and the
\* construction of the result.
RdShape ==
    /\ rd.pc = "shape"
    /\ ret' = Result("__getitem__", rd.name, rd.key, Ok,
                     Construct(DiskFormat(rd.name), rd.data, rd.indices, Rebase(rd.indptr),
                               ResultShape(DiskFormat(rd.name), rd.indptr,
                                           Get(children[rd.name].attrs.h5sparse_shape))))
    /\ rd' = Idle
    /\ UNCHANGED <<children, origin, ap>>

\* Lines 226-231: the shape is read and the formats are compared.
ApStart(name, m) ==
    /\ ap = Idle
    /\ IsSparseDataset(name)
    /\ WithinCaps(children[name], m)
    /\ ap' = IF AppendCheck(children[name], m) # Ok
             THEN [pc |-> "raised", name |-> name, m |-> m,
                   shape |-> <<0, 0>>, orig |-> 0, offset |-> 0]
             ELSE [pc |-> "data_resize", name |-> name, m |-> m,
                   shape |-> Get(children[name].attrs.h5sparse_shape),
                   orig |-> 0, offset |-> 0]
    /\ UNCHANGED <<children, origin, ret, rd>>

ApStep(pc, next, g, orig, offset) ==
    /\ ap.pc = pc
    /\ children' = [children EXCEPT ![ap.name] = g]
    /\ ap' = [ap EXCEPT !.pc = next, !.orig = orig, !.offset = offset]
    /\ UNCHANGED <<origin, ret, rd>>

\* Lines 233-236
ApDataResize ==
    ApStep("data_resize", "data_write", DataResize(children[ap.name], ap.m),
           ArrayLen(children[ap.name], "data"), 0)

\* Line 237
ApDataWrite ==
    ApStep("data_write", "indptr_resize",
           DataWrite(children[ap.name], ap.m, ap.orig, "saturate"), 0, 0)

\* Lines 240-244
ApIndptrResize ==
    ApStep("indptr_resize", "indptr_write", IndptrResize(children[ap.name], ap.m),
           ArrayLen(children[ap.name], "indptr"),
           LastOf(Get(children[ap.name].dsets.indptr).val))

\* Lines 245-246
ApIndptrWrite ==
    ApStep("indptr_write", "indices_resize",
           IndptrWrite(children[ap.name], ap.m, ap.orig, ap.offset, "saturate"), 0, 0)

\* Lines 249-252
ApIndicesResize ==
    ApStep("indices_resize", "indices_write", IndicesResize(children[ap.name], ap.m),
           ArrayLen(children[ap.name], "indices"), 0)

\* Line 253
ApIndicesWrite ==
    ApStep("indices_write", "shape",
           IndicesWrite(children[ap.name], ap.m, ap.orig, "saturate"), 0, 0)

\* Lines 256-258
ApShapeWrite ==
    ApStep("shape", "done", ShapeWrite(children[ap.name], ap.shape, ap.m), 0, 0)

Reader ==
    \/ Ready /\ rd = Idle /\ \E name \in Names, key \in RaceKeys : RdStart(name, key)
    \/ RdIndptr \/ RdData \/ RdIndices \/ RdShape

Writer ==
    \/ /\ ap = Idle
       /\ \E name \in Names, m \in RaceMatrices :
             /\ IsSparseDataset(name)
             /\ m.shape[2] = Get(children[name].attrs.h5sparse_shape)[2]
             /\ ApStart(name, m)
    \/ ApDataResize \/ ApDataWrite \/ ApIndptrResize \/ ApIndptrWrite
    \/ ApIndicesResize \/ ApIndicesWrite \/ ApShapeWrite

NextRace == Reader \/ Writer

SpecRace == InitRace /\ [][NextRace]_vars

\* ------------------------------------------------------------------- claims
\* The dense form of a compressed matrix, one function per major slot;
\* duplicate entries of a cell add up.
RECURSIVE SumAt(_, _, _, _)
SumAt(m, lo, hi, j) ==
    IF lo > hi THEN 0
    ELSE (IF m.indices[lo] = j THEN m.data[lo] ELSE 0) + SumAt(m, lo + 1, hi, j)

DenseSlot(m, i) ==
    [j \in 0..(Minor(m.format, m.shape) - 1) |->
        SumAt(m, m.indptr[i + 1] + 1, m.indptr[i + 2], j)]

\* The arrays of a matrix fit together: indptr has one entry more than
\* there are major slots, starts at 0, does not decrease, and ends at the
\* common length of data and indices; every index is on the minor axis.
WellFormed(m) ==
    /\ Len(m.indptr) = Major(m.format, m.shape) + 1
    /\ m.indptr[1] = 0
    /\ \A i \in 1..(Len(m.indptr) - 1) : m.indptr[i] <= m.indptr[i + 1]
    /\ m.indptr[Len(m.indptr)] = Len(m.data)
    /\ Len(m.data) = Len(m.indices)
    /\ \A k \in 1..Len(m.indices) :
           m.indices[k] >= 0 /\ m.indices[k] < Minor(m.format, m.shape)

Dense(m) == [i \in 0..(Major(m.format, m.shape) - 1) |-> DenseSlot(m, i)]

\* The matrix a dataset written by a completed create_dataset holds.
Stored(name) == ValueOf(children[name])[2]

IsWritten(name, fmt) ==
    /\ origin[name].kind = "written"
    /\ origin[name].m.format = fmt

\* The last call read rows a:b, all columns, of the CSR dataset `name`.
ReadRows(name, a, b) ==
    /\ ret.op = "__getitem__"
    /\ ret.name = name
    /\ ret.key = RowSlice(a, b)
    /\ IsWritten(name, "csr")

RowsAre(name, a, b) ==
    /\ ret.err = Ok
    /\ ret.val.format = "csr"
    /\ ret.val.shape = <<b - a, Stored(name).shape[2]>>
    /\ WellFormed(ret.val)
    /\ Dense(ret.val) = [i \in 0..(b - a - 1) |-> DenseSlot(Stored(name), a + i)]

\* C1: reading rows a:b (0 <= a <= b <= r, a = b and b = 0 included) of a
\* written CSR dataset returns a CSR matrix of shape (b - a, cols) equal
\* to rows a..b-1 of the stored matrix.
C1_SliceCorrect ==
    \A name \in Names : \A a \in 0..MaxRows, b \in 0..MaxRows :
        (ReadRows(name, a, b) /\ a <= b /\ b <= Stored(name).shape[1])
            => RowsAre(name, a, b)

\* The part of C1 the code satisfies: the same with 1 <= b.
SliceCorrectPositiveStop ==
    \A name \in Names : \A a \in 0..MaxRows, b \in 1..MaxRows :
        (ReadRows(name, a, b) /\ a <= b /\ b <= Stored(name).shape[1])
            => RowsAre(name, a, b)

SliceCorrectPositiveStopWitness ==
    \E name \in Names :
        /\ ReadRows(name, 1, 2)
        /\ Len(ret.val.data) >= 1
        /\ Len(Stored(name).data) >= 2

\* The written matrix's values fit the element types chosen for the arrays.
FitsWidths(m, dtype) ==
    /\ \A k \in 1..Len(m.data) : Fits(dtype, m.data[k])
    /\ \A k \in 1..Len(m.indices) : Fits(indices_dtype, m.indices[k])
    /\ \A k \in 1..Len(m.indptr) : Fits(indptr_dtype, m.indptr[k])

\* C3: a CSR or CSC matrix whose values fit the element types, written with
\* create_dataset and read back through value, comes back with the same
\* format, shape, data, indices and indptr.
C3_RoundTrip ==
    \A name \in Names :
        (/\ ret.op = "value"
         /\ ret.name = name
         /\ origin[name].kind = "written"
         /\ FitsWidths(origin[name].m, origin[name].dtype))
            => (ret.err = Ok /\ ret.val = origin[name].m)

C3_Witness ==
    \E name \in Names :
        /\ ret.op = "value"
        /\ ret.name = name
        /\ IsWritten(name, "csc")
        /\ origin[name].dtype = "int8"
        /\ Len(origin[name].m.data) >= 2
        /\ ret.err = Ok

\* The last call indexed the sparse dataset `name` with this minor-axis
\* selector.
IndexedWithMinor(name, sel) ==
    /\ ret.op = "__getitem__"
    /\ ret.name = name
    /\ origin[name].kind \in {"written", "copied"}
    /\ MinorSel(Get(children[name].attrs.h5sparse_format), ret.key) = sel

\* C5: an integer, or a slice with any of start, stop, step set (0
\* included), as the minor-axis selector is rejected with UnsupportedSlice.
C5_MinorAxisRejected ==
    \A name \in Names : \A sel \in MinorSels :
        (IndexedWithMinor(name, sel) /\ sel.kind \in {"int", "slice"} /\ sel # FullSlice)
            => (ret.err = UnsupportedSlice /\ ret.val = NoVal)

\* C6: a child recognised as a sparse dataset has both attributes and all
\* three arrays, also after a create_dataset that failed part-way.
C6_NeverPartial ==
    \A name \in Names :
        Classify(children[name]) = "SparseDataset"
            => /\ children[name].attrs.h5sparse_shape # None
               /\ children[name].dsets.data # None
               /\ children[name].dsets.indices # None
               /\ children[name].dsets.indptr # None

\* Major slot i (0-based) of a matrix, as a matrix with one major slot.
SlotOf(m, i) ==
    LET lo == m.indptr[i + 1]
        hi == m.indptr[i + 2]
    IN  [format  |-> m.format,
         shape   |-> IF m.format = "csr" THEN <<1, m.shape[2]>> ELSE <<m.shape[1], 1>>,
         data    |-> Range0(m.data, lo, hi),
         indices |-> Range0(m.indices, lo, hi),
         indptr  |-> <<0, hi - lo>>]

\* C8: a scalar major-axis index k, -r <= k < r, on a dataset with r >= 1
\* major slots returns slot k (slot r + k for a negative k) alone.
C8_ScalarIndex ==
    \A name \in Names : \A k \in IdxRange :
        (/\ ret.op = "__getitem__"
         /\ ret.name = name
         /\ origin[name].kind = "written"
         /\ ret.key = MakeKey(origin[name].m.format, IntSel(k), FullSlice)
         /\ LET r == Major(Stored(name).format, Stored(name).shape) IN
                r >= 1 /\ -r <= k /\ k < r)
            => LET r == Major(Stored(name).format, Stored(name).shape) IN
               /\ ret.err = Ok
               /\ ret.val = SlotOf(Stored(name), IF k < 0 THEN r + k ELSE k)

\* The part of C8 the code satisfies: every such k but -1.
ScalarIndexButLast ==
    \A name \in Names : \A k \in IdxRange \ {-1} :
        (/\ ret.op = "__getitem__"
         /\ ret.name = name
         /\ origin[name].kind = "written"
         /\ ret.key = MakeKey(origin[name].m.format, IntSel(k), FullSlice)
         /\ LET r == Major(Stored(name).format, Stored(name).shape) IN
                r >= 1 /\ -r <= k /\ k < r)
            => LET r == Major(Stored(name).format, Stored(name).shape) IN
               /\ ret.err = Ok
               /\ ret.val = SlotOf(Stored(name), IF k < 0 THEN r + k ELSE k)

ChildNames == {n \in Names : children[n] # NoChild}

\* C9: a create_dataset that fails with UnsupportedFormat leaves the parent
\* group's set of children as it was.
C9_RejectedWriteMutatesNothing ==
    [][(ret'.op = "create_dataset" /\ ret'.err = UnsupportedFormat)
          => ChildNames' = ChildNames]_vars

\* A complete dataset: written, copied or grown by calls that returned.
ValidDataset(name) == origin[name].kind \in {"written", "copied", "appended"}

\* The dense form of major slot i padded to width w.
DenseSlotW(m, i, w) ==
    [j \in 0..(w - 1) |-> SumAt(m, m.indptr[i + 1] + 1, m.indptr[i + 2], j)]

\* The rows of A followed by the rows of B, in columns 0..w-1.
VStack(A, B, w) ==
    [i \in 0..(A.shape[1] + B.shape[1] - 1) |->
        IF i < A.shape[1] THEN DenseSlotW(A, i, w) ELSE DenseSlotW(B, i - A.shape[1], w)]

\* The state after append(A, B): A and B laid end to end.
AppendPost(A, B, D) ==
    /\ D.data = A.data \o B.data
    /\ D.indices = A.indices \o B.indices
    /\ D.indptr = A.indptr \o [i \in 1..(Len(B.indptr) - 1) |->
                                  B.indptr[i + 1] + A.indptr[Len(A.indptr)]]
    /\ D.shape = <<A.shape[1] + B.shape[1], Max(A.shape[2], B.shape[2])>>
    /\ D.format = "csr"
    /\ Dense(D) = VStack(A, B, Max(A.shape[2], B.shape[2]))

\* This step is a completed append of a CSR matrix onto dataset `name`.
AppendedStep(name) ==
    /\ ret'.op = "append"
    /\ ret'.name = name
    /\ ret'.err = Ok
    /\ ValidDataset(name)

AppendedOnto(name, tag, fmt) ==
    /\ ret.op = "append"
    /\ ret.name = name
    /\ ValidDataset(name)
    /\ ret.key.format = tag
    /\ DiskFormat(name) = fmt

\* C4 as stated: CSC onto CSR fails with FormatMismatch; CSR or CSC onto
\* CSC fails with NotImplemented.
C4_AppendErrors ==
    \A name \in Names :
        /\ AppendedOnto(name, "csc", "csr") => ret.err = FormatMismatch
        /\ \A tag \in FORMAT_DICT :
               AppendedOnto(name, tag, "csc") => ret.err = AppendNotImplemented

\* C4 amended: CSC onto CSR and CSR onto CSC fail with FormatMismatch;
\* CSC onto CSC fails with NotImplemented.
C4_AppendErrorsByFormat ==
    \A name \in Names :
        /\ AppendedOnto(name, "csc", "csr") => ret.err = FormatMismatch
        /\ AppendedOnto(name, "csr", "csc") => ret.err = FormatMismatch
        /\ AppendedOnto(name, "csc", "csc") => ret.err = AppendNotImplemented

C4_Witness ==
    \E name \in Names :
        /\ AppendedOnto(name, "csc", "csc")
        /\ Len(ret.key.data) >= 1
        /\ Len(Stored(name).data) >= 1

C10_ReadStableUnderAppend ==
    \A name \in Names : \A a \in 0..MaxRows, b \in 1..MaxRows :
        (/\ ret.op = "__getitem__"
         /\ ret.name = name
         /\ ret.key = RowSlice(a, b)
         /\ a <= b
         /\ b <= origin[name].m.shape[1]
         /\ ap # Idle => ap.m.shape[2] = origin[name].m.shape[2])
            => LET before == GroupAfter(Len(CreateSteps), "csr", origin[name].m.shape,
                                        origin[name].m.data, origin[name].m.indices,
                                        origin[name].m.indptr, "int64", "saturate")
               IN  <<ret.err, ret.val>> = GetItemOf(before, RowSlice(a, b))

\* The read ended while the append was between its indptr resize and its
\* shape write, and returned stored entries.
C10_Witness ==
    \E name \in Names :
        /\ ret.op = "__getitem__"
        /\ ret.key = RowSlice(1, 2)
        /\ ret.err = Ok
        /\ Len(ret.val.data) >= 1
        /\ ap # Idle
        /\ ap.pc \in {"indptr_write", "indices_resize", "indices_write", "shape"}
        /\ Len(ap.m.data) >= 1
        /\ ap.m.shape[2] = origin[name].m.shape[2]

====
